---- MODULE Spec2Model ----
(***************************************************************************)
(* Model of src/zombie_apocalypse.py: the class Zombie_apocalypse (rate    *)
(* constants, constructor, diff_eq_solver, scenario_builder, plotter) and  *)
(* the __main__ block that runs three scenarios.                           *)
(*                                                                         *)
(* Arithmetic.  The program computes in floating point.  The model uses    *)
(* fixed point: a real x is the integer x * Scale, a product is rounded    *)
(* toward minus infinity to the grid (Mul), sums and differences are exact.*)
(*                                                                         *)
(* Integrator.  scipy.integrate.odeint is a library, not code of the       *)
(* repository.  OdeStep models what it does between two consecutive        *)
(* timeline samples by one explicit first-order step that calls the        *)
(* derivative callback once at the current point.                          *)
(***************************************************************************)
EXTENDS Integers, Sequences, FiniteSets, TLC

Scale == 10 * 10 * 10 * 10

\* a * b / Scale rounded down, computed without leaving 32 bits for
\* |a| < 2 * 10^5
Mul(a, b) == a * (b \div Scale) + (a * (b % Scale)) \div Scale

(***************************************************************************)
(* Class attributes, lines 43-46, in units of 1 / Scale.                   *)
(***************************************************************************)
d == 77
B == 95
G == 5
A == 50

\* np.linspace(0, nr_sim_days, NumSamples), line 74
NumSamples == 1000

\* bound on the number of calls a caller of the imported class makes
MaxCalls == 3

VARIABLES
    rates,   \* the class attributes d, B, G, A
    objs,    \* the instances constructed so far: id -> attribute dictionary
    plt,     \* matplotlib.pyplot: interactive flag and the figures opened
    files,   \* the image files written by savefig
    call,    \* the last call of a method: its receiver, arguments and result
    ncalls,  \* number of method calls made so far
    pc       \* "import": the class is used by a caller; else position in __main__

vars == <<rates, objs, plt, files, call, ncalls, pc>>

\* an attribute dictionary o with attribute a set to v
SetAttr(o, a, v) == [x \in DOMAIN o \cup {a} |-> IF x = a THEN v ELSE o[x]]

HasAttr(o, a) == a \in DOMAIN o

\* keyword argument k of kw, or its default dflt when it is not passed
Arg(kw, k, dflt) == IF k \in DOMAIN kw THEN kw[k] ELSE dflt

(***************************************************************************)
(* np.linspace(0, days, NumSamples), line 74                               *)
(***************************************************************************)
Linspace(days) ==
    [k \in 1..NumSamples |->
        IF NumSamples = 1 THEN 0
        ELSE ((k - 1) * days * Scale) \div (NumSamples - 1)]

\* NewObject with the default of S0 taken to be 100 instead of 1000
NewObjectDefault100(kw) ==
    LET S0 == Arg(kw, "S0", 100 * Scale)
        Z0 == IF "Zc" \in DOMAIN kw THEN Mul(kw.Zc, S0) ELSE 0
        R0 == IF "Rc" \in DOMAIN kw THEN Mul(kw.Rc, S0) ELSE 0
        P  == IF "P" \in DOMAIN kw THEN kw.P ELSE 0
        days == Arg(kw, "nr_sim_days", 10)
    IN  [S0 |-> S0, Z0 |-> Z0, R0 |-> R0, P |-> P,
         y0 |-> <<S0, Z0, R0>>,
         scenario_title |-> kw.scenario_title,
         timeline |-> Linspace(days),
         nr_sim_days |-> days]

\* NewObject with the initial dead count taken out of the living instead of
\* derived from them: R0 = Rc * S0 - S0
NewObjectDeadTakenOut(kw) ==
    LET S0 == Arg(kw, "S0", 1000 * Scale)
        Z0 == IF "Zc" \in DOMAIN kw THEN Mul(kw.Zc, S0) ELSE 0
        R0 == IF "Rc" \in DOMAIN kw THEN Mul(kw.Rc, S0) - S0 ELSE 0
        P  == IF "P" \in DOMAIN kw THEN kw.P ELSE 0
        days == Arg(kw, "nr_sim_days", 10)
    IN  [S0 |-> S0, Z0 |-> Z0, R0 |-> R0, P |-> P,
         y0 |-> <<S0, Z0, R0>>,
         scenario_title |-> kw.scenario_title,
         timeline |-> Linspace(days),
         nr_sim_days |-> days]

(***************************************************************************)
(* __init__, lines 48-75.  kw holds the keyword arguments that were        *)
(* passed; Zc, Rc and P absent stand for None.                             *)
(***************************************************************************)
NewObject(kw) ==
    LET S0 == Arg(kw, "S0", 1000 * Scale)
        Z0 == IF "Zc" \in DOMAIN kw THEN Mul(kw.Zc, S0) ELSE 0
        R0 == IF "Rc" \in DOMAIN kw THEN Mul(kw.Rc, S0) ELSE 0
        P  == IF "P" \in DOMAIN kw THEN kw.P ELSE 0
        days == Arg(kw, "nr_sim_days", 10)
    IN  [S0 |-> S0, Z0 |-> Z0, R0 |-> R0, P |-> P,
         y0 |-> <<S0, Z0, R0>>,
         scenario_title |-> kw.scenario_title,
         timeline |-> Linspace(days),
         nr_sim_days |-> days]

\* Derivative with negative inputs clamped to 0
DerivativeClamped(o, r, y, t) ==
    LET Si == IF y[1] < 0 THEN 0 ELSE y[1]
        Zi == IF y[2] < 0 THEN 0 ELSE y[2]
        Ri == IF y[3] < 0 THEN 0 ELSE y[3]
        f0 == o.P - Mul(Mul(r.B, Si), Zi) - Mul(r.d, Si)
        f1 == Mul(Mul(r.B, Si), Zi) + Mul(r.G, Ri) - Mul(Mul(r.A, Si), Zi)
        f2 == Mul(r.d, Si) + Mul(Mul(r.A, Si), Zi) - Mul(r.G, Ri)
    IN  <<f0, f1, f2>>

\* Derivative without the resurrection term G*R
DerivativeNoResurrection(o, r, y, t) ==
    LET Si == y[1]
        Zi == y[2]
        Ri == y[3]
        f0 == o.P - Mul(Mul(r.B, Si), Zi) - Mul(r.d, Si)
        f1 == Mul(Mul(r.B, Si), Zi) - Mul(Mul(r.A, Si), Zi)
        f2 == Mul(r.d, Si) + Mul(Mul(r.A, Si), Zi)
    IN  <<f0, f1, f2>>

\* Derivative whose dR/dt misses the zombies killed, A*S*Z
DerivativeLosesKilled(o, r, y, t) ==
    LET Si == y[1]
        Zi == y[2]
        Ri == y[3]
        f0 == o.P - Mul(Mul(r.B, Si), Zi) - Mul(r.d, Si)
        f1 == Mul(Mul(r.B, Si), Zi) + Mul(r.G, Ri) - Mul(Mul(r.A, Si), Zi)
        f2 == Mul(r.d, Si) - Mul(r.G, Ri)
    IN  <<f0, f1, f2>>

\* Derivative with the sign of the infection term of dZ/dt reversed
DerivativeSignError(o, r, y, t) ==
    LET Si == y[1]
        Zi == y[2]
        Ri == y[3]
        f0 == o.P - Mul(Mul(r.B, Si), Zi) - Mul(r.d, Si)
        f1 == Mul(r.G, Ri) - Mul(Mul(r.B, Si), Zi) - Mul(Mul(r.A, Si), Zi)
        f2 == Mul(r.d, Si) + Mul(Mul(r.A, Si), Zi) - Mul(r.G, Ri)
    IN  <<f0, f1, f2>>

(***************************************************************************)
(* diff_eq_solver, lines 102-110: the derivative vector for object o,      *)
(* class attributes r, state y and time t.                                 *)
(***************************************************************************)
Derivative(o, r, y, t) ==
    LET Si == y[1]
        Zi == y[2]
        Ri == y[3]
        f0 == o.P - Mul(Mul(r.B, Si), Zi) - Mul(r.d, Si)
        f1 == Mul(Mul(r.B, Si), Zi) + Mul(r.G, Ri) - Mul(Mul(r.A, Si), Zi)
        f2 == Mul(r.d, Si) + Mul(Mul(r.A, Si), Zi) - Mul(r.G, Ri)
    IN  <<f0, f1, f2>>

\* StoreDerivative that also keeps the result as the object's state y0
StoreDerivativeAsState(o, f) ==
    SetAttr(SetAttr(SetAttr(SetAttr(o, "f0", f[1]), "f1", f[2]), "f2", f[3]), "y0", f)

\* the object after diff_eq_solver ran on it: lines 107-109 store the
\* three components in self.f0, self.f1, self.f2
StoreDerivative(o, f) ==
    SetAttr(SetAttr(SetAttr(o, "f0", f[1]), "f1", f[2]), "f2", f[3])

(***************************************************************************)
(* odeint, line 115: from the point y at sample k to sample k + 1.         *)
(***************************************************************************)
OdeStep(o, r, y, k) ==
    LET h == o.timeline[k + 1] - o.timeline[k]
        f == Derivative(o, r, y, o.timeline[k])
    IN  <<y[1] + Mul(h, f[1]), y[2] + Mul(h, f[2]), y[3] + Mul(h, f[3])>>

\* n further samples appended to soln: the loop over the timeline, split
\* in halves, each half evaluated before the next starts
RECURSIVE OdeRun(_, _, _, _)
OdeRun(o, r, soln, n) ==
    IF n <= 0 THEN soln
    ELSE IF n = 1
         THEN Append(soln, OdeStep(o, r, soln[Len(soln)], Len(soln)))
         ELSE CHOOSE res \in { OdeRun(o, r, mid, n - n \div 2) :
                                 mid \in { OdeRun(o, r, soln, n \div 2) } } : TRUE

\* soln = odeint(self.diff_eq_solver, self.y0, self.timeline): one row per
\* timeline sample, the first being y0
OdeInt(o, r) == OdeRun(o, r, <<o.y0>>, Len(o.timeline) - 1)

Column(soln, c) == [k \in 1..Len(soln) |-> soln[k][c]]

\* Built that resumes from the end of the trajectory the object already
\* holds instead of starting from y0
BuiltResuming(o, r) ==
    LET start == IF HasAttr(o, "S")
                 THEN <<o.S[Len(o.S)], o.Z[Len(o.Z)], o.R[Len(o.R)]>>
                 ELSE o.y0
        soln == OdeRun(o, r, <<start>>, Len(o.timeline) - 1)
    IN  SetAttr(SetAttr(SetAttr(o, "S", Column(soln, 1)),
                        "Z", Column(soln, 2)), "R", Column(soln, 3))

\* the object after scenario_builder, lines 115-118
Built(o, r) ==
    LET soln == OdeInt(o, r)
        n == Len(soln)
        last == IF n > 1
                THEN StoreDerivative(o, Derivative(o, r, soln[n - 1], o.timeline[n - 1]))
                ELSE o
    IN  SetAttr(SetAttr(SetAttr(last, "S", Column(soln, 1)),
                        "Z", Column(soln, 2)), "R", Column(soln, 3))

(***************************************************************************)
(* The methods as actions                                                  *)
(***************************************************************************)
Construct(i, kw) ==
    /\ i \notin DOMAIN objs
    /\ objs' = [x \in DOMAIN objs \cup {i} |-> IF x = i THEN NewObject(kw) ELSE objs[x]]
    /\ call' = [op |-> "__init__", self |-> i, args |-> kw, ret |-> "None"]
    /\ ncalls' = ncalls + 1
    /\ UNCHANGED <<rates, plt, files>>

\* DiffEqSolver that stores the death term d*S in the class attribute d
DiffEqSolverWritesRate(i, y, t) ==
    /\ i \in DOMAIN objs
    /\ LET f == Derivative(objs[i], rates, y, t)
       IN  /\ objs' = [objs EXCEPT ![i] = StoreDerivative(@, f)]
           /\ call' = [op |-> "diff_eq_solver", self |-> i, args |-> <<y, t>>, ret |-> f]
    /\ ncalls' = ncalls + 1
    /\ rates' = [rates EXCEPT !.d = Mul(rates.d, y[1])]
    /\ UNCHANGED <<plt, files>>

DiffEqSolver(i, y, t) ==
    /\ i \in DOMAIN objs
    /\ LET f == Derivative(objs[i], rates, y, t)
       IN  /\ objs' = [objs EXCEPT ![i] = StoreDerivative(@, f)]
           /\ call' = [op |-> "diff_eq_solver", self |-> i, args |-> <<y, t>>, ret |-> f]
    /\ ncalls' = ncalls + 1
    /\ UNCHANGED <<rates, plt, files>>

ScenarioBuilder(i) ==
    /\ i \in DOMAIN objs
    /\ objs' = [objs EXCEPT ![i] = Built(@, rates)]
    /\ call' = [op |-> "scenario_builder", self |-> i, args |-> <<>>, ret |-> "None"]
    /\ ncalls' = ncalls + 1
    /\ UNCHANGED <<rates, plt, files>>

\* plotter, lines 131-145: plt.figure() opens a figure, then plt.plot reads
\* self.S and self.Z, which raises AttributeError when scenario_builder
\* has not run
Plotter(i) ==
    /\ i \in DOMAIN objs
    /\ IF HasAttr(objs[i], "S") /\ HasAttr(objs[i], "Z")
       THEN /\ plt' = [ion |-> TRUE,
                       figures |-> Append(plt.figures, objs[i].scenario_title)]
            /\ files' = files \cup {objs[i].scenario_title}
            /\ call' = [op |-> "plotter", self |-> i, args |-> <<>>, ret |-> "None"]
       ELSE /\ plt' = [ion |-> TRUE, figures |-> Append(plt.figures, "")]
            /\ files' = files
            /\ call' = [op |-> "plotter", self |-> i, args |-> <<>>,
                        ret |-> "AttributeError"]
    /\ ncalls' = ncalls + 1
    /\ UNCHANGED <<rates, objs>>

(***************************************************************************)
(* __main__, lines 149-169.  The three scenario titles, distinct strings   *)
(* in the source, are abbreviated to the names of the variables that hold  *)
(* the scenarios; fractions and rates are in units of 1 / Scale.           *)
(***************************************************************************)
Scenario1Args == [scenario_title |-> "scenario_1"]
Scenario2Args == [Rc |-> 150, scenario_title |-> "scenario_2"]
Scenario3Args == [Rc |-> 200, P |-> 30 * Scale, scenario_title |-> "scenario_3"]

MainArgs(i) == CASE i = 1 -> Scenario1Args [] i = 2 -> Scenario2Args [] OTHER -> Scenario3Args

\* MainNew that goes on to plotter without scenario_builder
MainNewSkipsBuild ==
    /\ pc.at = "new"
    /\ Construct(pc.scenario, MainArgs(pc.scenario))
    /\ pc' = [pc EXCEPT !.at = "plot"]

MainNew ==
    /\ pc.at = "new"
    /\ Construct(pc.scenario, MainArgs(pc.scenario))
    /\ pc' = [pc EXCEPT !.at = "build"]

MainBuild ==
    /\ pc.at = "build"
    /\ ScenarioBuilder(pc.scenario)
    /\ pc' = [pc EXCEPT !.at = "plot"]

\* an exception raised by plotter ends the run
MainPlot ==
    /\ pc.at = "plot"
    /\ Plotter(pc.scenario)
    /\ pc' = IF call'.ret = "AttributeError"
             THEN [at |-> "raised", scenario |-> pc.scenario]
             ELSE IF pc.scenario < 3
                  THEN [at |-> "new", scenario |-> pc.scenario + 1]
                  ELSE [at |-> "done", scenario |-> 3]

(***************************************************************************)
(* The class imported and used by a caller                                 *)
(***************************************************************************)
CallerArgs ==
    { Scenario1Args, Scenario2Args, Scenario3Args,
      [Zc |-> 100, Rc |-> 150, nr_sim_days |-> 1, scenario_title |-> "seeded"],
      [S0 |-> 500 * Scale, Zc |-> -150, Rc |-> -20, nr_sim_days |-> 0,
       scenario_title |-> "negative"] }

CallerStates(o) == { o.y0, <<-5 * Scale, 3 * Scale, -2 * Scale>> }

CallerTimes == { 0, 7 * Scale }

Importing == pc.at = "import" /\ ncalls < MaxCalls

CallNew ==
    /\ Importing
    /\ \E kw \in CallerArgs : Construct(Cardinality(DOMAIN objs) + 1, kw)
    /\ UNCHANGED pc

CallSolver ==
    /\ Importing
    /\ \E i \in DOMAIN objs : \E y \in CallerStates(objs[i]) : \E t \in CallerTimes :
           DiffEqSolver(i, y, t)
    /\ UNCHANGED pc

CallBuild ==
    /\ Importing
    /\ \E i \in DOMAIN objs : ScenarioBuilder(i)
    /\ UNCHANGED pc

CallPlot ==
    /\ Importing
    /\ \E i \in DOMAIN objs : Plotter(i)
    /\ UNCHANGED pc

Init ==
    /\ rates = [d |-> d, B |-> B, G |-> G, A |-> A]
    /\ objs = <<>>
    /\ plt = [ion |-> FALSE, figures |-> <<>>]
    /\ files = {}
    /\ call = [op |-> "none", self |-> 0, args |-> <<>>, ret |-> "None"]
    /\ ncalls = 0
    /\ pc \in { [at |-> "new", scenario |-> 1], [at |-> "import", scenario |-> 0] }

Next ==
    \/ MainNew
    \/ MainBuild
    \/ MainPlot
    \/ CallNew
    \/ CallSolver
    \/ CallBuild
    \/ CallPlot

Spec == Init /\ [][Next]_vars

(***************************************************************************)
(* Helpers of the properties                                               *)
(***************************************************************************)
Abs(x) == IF x < 0 THEN -x ELSE x

OneIndividual == Scale

IsBuilt(o) == HasAttr(o, "S") /\ HasAttr(o, "Z") /\ HasAttr(o, "R")

\* the last call was diff_eq_solver
SolverCalled == call.op = "diff_eq_solver"

\* the step just taken is a call of method m
CallOf(m) == ncalls' = ncalls + 1 /\ call'.op = m

MainTitles == <<"scenario_1", "scenario_2", "scenario_3">>

(***************************************************************************)
(* C1.  Whatever the state (S, Z, R) and the time t, diff_eq_solver        *)
(* returns [P - B*S*Z - d*S, B*S*Z + G*R - A*S*Z, d*S + A*S*Z - G*R] with  *)
(* the scenario's P and the class constants; t does not enter the result   *)
(* and negative inputs are used as they are.                               *)
(***************************************************************************)
C1_DerivativeVector ==
    SolverCalled =>
        LET S == call.args[1][1]
            Z == call.args[1][2]
            R == call.args[1][3]
            P == objs[call.self].P
            BSZ == Mul(Mul(B, S), Z)
            ASZ == Mul(Mul(A, S), Z)
        IN  call.ret = << P - BSZ - Mul(d, S),
                          BSZ + Mul(G, R) - ASZ,
                          Mul(d, S) + ASZ - Mul(G, R) >>

\* diff_eq_solver was called on a state with negative components at a
\* time other than 0, and the result has a positive first component
C1_Witness ==
    /\ SolverCalled
    /\ call.args[1][1] < 0
    /\ call.args[1][3] < 0
    /\ call.args[2] # 0
    /\ call.ret[1] > 0

(***************************************************************************)
(* C5.  The constructor sets y0 = [S0, Z0, R0] with Z0 = Zc * S0 when Zc   *)
(* is given and 0 otherwise, R0 = Rc * S0 when Rc is given and 0           *)
(* otherwise, P the given birth rate or 0; S0 defaults to 1000 and         *)
(* nr_sim_days to 10.                                                      *)
(***************************************************************************)
C5_ConstructorDerivesInitialState ==
    call.op = "__init__" =>
        LET kw == call.args
            o == objs[call.self]
            given(k) == k \in DOMAIN kw
        IN  /\ o.y0 = <<o.S0, o.Z0, o.R0>>
            /\ o.S0 = (IF given("S0") THEN kw.S0 ELSE 1000 * Scale)
            /\ o.Z0 = (IF given("Zc") THEN Mul(kw.Zc, o.S0) ELSE 0)
            /\ o.R0 = (IF given("Rc") THEN Mul(kw.Rc, o.S0) ELSE 0)
            /\ o.P = (IF given("P") THEN kw.P ELSE 0)
            /\ o.nr_sim_days = (IF given("nr_sim_days") THEN kw.nr_sim_days ELSE 10)

\* an object was constructed with Rc and P given and Zc, S0 and nr_sim_days
\* left to their defaults
C5_Witness ==
    /\ call.op = "__init__"
    /\ DOMAIN call.args = {"Rc", "P", "scenario_title"}
    /\ objs[call.self].y0 = <<1000 * Scale, 0, 20 * Scale>>
    /\ objs[call.self].P = 30 * Scale

(***************************************************************************)
(* C6 as stated.  Every scenario the constructor builds has an initial     *)
(* state (S0, Z0, R0) with all components >= 0.                            *)
(***************************************************************************)
C6_InitialStateNonNegative ==
    \A i \in DOMAIN objs : \A c \in 1..3 : objs[i].y0[c] >= 0

(***************************************************************************)
(* C6 amended.  The constructor does not validate its arguments.  When S0  *)
(* is >= 0 and each of Zc, Rc is absent or >= 0, all components of the     *)
(* initial state are >= 0.                                                 *)
(***************************************************************************)
C6_NonNegativeForValidArguments ==
    call.op = "__init__" =>
        LET kw == call.args
            o == objs[call.self]
            valid == /\ Arg(kw, "S0", 0) >= 0
                     /\ Arg(kw, "Zc", 0) >= 0
                     /\ Arg(kw, "Rc", 0) >= 0
        IN  valid => \A c \in 1..3 : o.y0[c] >= 0

\* an object was constructed from non-negative fractions that are both
\* given and its initial zombie and dead counts are positive
C6_Witness ==
    /\ call.op = "__init__"
    /\ {"Zc", "Rc"} \subseteq DOMAIN call.args
    /\ call.args.Zc > 0
    /\ call.args.Rc > 0
    /\ objs[call.self].Z0 > 0
    /\ objs[call.self].R0 > 0

\* the objects constructed with the parameters of scenario 1 (all defaults)
IsScenario1(o) ==
    /\ o.S0 = 1000 * Scale
    /\ o.Z0 = 0
    /\ o.R0 = 0
    /\ o.P = 0
    /\ o.nr_sim_days = 10

(***************************************************************************)
(* C2 as stated.  In scenario 1 (S0 = 1000, Z0 = 0, R0 = 0, P = 0) the     *)
(* zombie population stays at or near 0 (below one individual) at every    *)
(* sample of the simulated horizon.                                        *)
(***************************************************************************)
C2_ZombiesStayNearZero ==
    \A i \in DOMAIN objs :
        (IsScenario1(objs[i]) /\ IsBuilt(objs[i])) =>
            \A k \in 1..Len(objs[i].Z) : Abs(objs[i].Z[k]) < OneIndividual

(***************************************************************************)
(* C2 amended.  In scenario 1 the zombie population is 0 at t = 0 and its  *)
(* derivative at the initial state is 0, but it does not stay near 0:      *)
(* natural deaths d*S feed R (dR/dt > 0 at the initial state),             *)
(* resurrection G*R then seeds Z, and Z exceeds one individual before the  *)
(* end of the horizon.                                                     *)
(***************************************************************************)
C2_OutbreakStartsWithoutSeed ==
    \A i \in DOMAIN objs :
        (IsScenario1(objs[i]) /\ IsBuilt(objs[i])) =>
            LET o == objs[i]
                n == Len(o.Z)
            IN  /\ o.Z[1] = 0
                /\ Derivative(o, rates, o.y0, 0)[2] = 0
                /\ Derivative(o, rates, o.y0, 0)[3] > 0
                /\ o.Z[n] > OneIndividual

\* the entry point has built the trajectory of scenario 1
C2_Witness ==
    /\ pc.at = "plot"
    /\ pc.scenario = 1
    /\ IsScenario1(objs[1])
    /\ IsBuilt(objs[1])
    /\ Len(objs[1].Z) = NumSamples

(***************************************************************************)
(* C3 as stated.  diff_eq_solver has no side effect: a call leaves every   *)
(* attribute of every scenario object and the class rate constants         *)
(* unchanged.                                                              *)
(***************************************************************************)
C3_SolverHasNoSideEffect ==
    [][CallOf("diff_eq_solver") => (objs' = objs /\ rates' = rates)]_vars

(***************************************************************************)
(* C3 amended.  A call of diff_eq_solver stores the three components it    *)
(* returns in the attributes f0, f1, f2 of its object and changes nothing  *)
(* else: every other attribute of that object (S0, Z0, R0, P, y0,          *)
(* timeline, trajectory, ...), every other object, the class rate          *)
(* constants, the figures and the files are unchanged.                     *)
(***************************************************************************)
C3_SolverWritesOnlyDerivativeFields ==
    [][CallOf("diff_eq_solver") =>
          LET i == call'.self
              old == objs[i]
              new == objs'[i]
          IN  /\ DOMAIN objs' = DOMAIN objs
              /\ \A j \in DOMAIN objs \ {i} : objs'[j] = objs[j]
              /\ DOMAIN new = DOMAIN old \cup {"f0", "f1", "f2"}
              /\ \A a \in DOMAIN old \ {"f0", "f1", "f2"} : new[a] = old[a]
              /\ <<new.f0, new.f1, new.f2>> = call'.ret
              /\ rates' = rates
              /\ plt' = plt
              /\ files' = files]_vars

\* diff_eq_solver was called on an object that holds a trajectory, and the
\* derivative it stored differs from zero
C3_Witness ==
    /\ SolverCalled
    /\ IsBuilt(objs[call.self])
    /\ objs[call.self].f0 = call.ret[1]
    /\ call.ret[1] # 0

Total(o, k) == o.S[k] + o.Z[k] + o.R[k]

\* relative tolerance of the conservation check: 1 / 1000
RelTol == 10 * 10 * 10

C7_RateConstantsNeverChange ==
    /\ rates = [d |-> 77, B |-> 95, G |-> 5, A |-> 50]
    /\ \A i \in DOMAIN objs : DOMAIN objs[i] \cap {"d", "B", "G", "A"} = {}

\* the entry point has finished: three instances exist, each was
\* constructed, integrated (diff_eq_solver stored a derivative) and plotted
C7_Witness ==
    /\ pc.at = "done"
    /\ Cardinality(DOMAIN objs) = 3
    /\ \A i \in DOMAIN objs : IsBuilt(objs[i]) /\ HasAttr(objs[i], "f0")
    /\ Cardinality(files) = 3

(***************************************************************************)
(* C8.  Once scenario_builder has stored the trajectory (S, Z, R) of a     *)
(* scenario, no later operation changes the stored sequences: not          *)
(* diff_eq_solver, not plotter, not a further scenario_builder call, not   *)
(* an operation on another instance.                                       *)
(***************************************************************************)
C8_TrajectoryImmutable ==
    [][\A i \in DOMAIN objs :
          IsBuilt(objs[i]) =>
              /\ i \in DOMAIN objs'
              /\ IsBuilt(objs'[i])
              /\ objs'[i].S = objs[i].S
              /\ objs'[i].Z = objs[i].Z
              /\ objs'[i].R = objs[i].R]_vars

\* the trajectory of scenario 1 was stored, then scenario 1 was plotted and
\* scenarios 2 and 3 were constructed and integrated after it
C8_Witness ==
    /\ pc.at = "plot"
    /\ pc.scenario = 3
    /\ IsBuilt(objs[1])
    /\ objs[1].Z[NumSamples] > 0
    /\ IsBuilt(objs[3])
    /\ Len(plt.figures) = 2

(***************************************************************************)
(* C9.  With P = 0 and an initial state with S0 >= 0, R0 >= 0 and Z0 > 0,  *)
(* the derivative at the initial state has dS/dt <= 0 and                  *)
(* dZ/dt + dR/dt >= 0, and over the first integration step S does not      *)
(* increase and Z + R does not decrease.                                   *)
(***************************************************************************)
C9_Precondition(o) == o.P = 0 /\ o.S0 >= 0 /\ o.R0 >= 0 /\ o.Z0 > 0

C9_InitialMonotonicity ==
    /\ (SolverCalled /\ C9_Precondition(objs[call.self])
            /\ call.args[1] = objs[call.self].y0) =>
           (call.ret[1] <= 0 /\ call.ret[2] + call.ret[3] >= 0)
    /\ \A i \in DOMAIN objs :
           (IsBuilt(objs[i]) /\ C9_Precondition(objs[i])) =>
               LET o == objs[i]
               IN  /\ o.S[2] <= o.S[1]
                   /\ o.Z[2] + o.R[2] >= o.Z[1] + o.R[1]

\* diff_eq_solver was called at the initial state of a scenario with
\* initial zombies and no births, with a strictly negative dS/dt, on an
\* object whose trajectory has S strictly decreasing over the first step
C9_Witness ==
    /\ SolverCalled
    /\ C9_Precondition(objs[call.self])
    /\ call.args[1] = objs[call.self].y0
    /\ call.ret[1] < 0
    /\ IsBuilt(objs[call.self])
    /\ objs[call.self].S[2] < objs[call.self].S[1]

(***************************************************************************)
(* C10.  The entry point handles exactly three scenarios in the order 1,   *)
(* 2, 3: a scenario is constructed only after the previous one has been    *)
(* integrated and plotted, scenario_builder of a scenario completes before *)
(* its plotter starts, and plotter never runs on a scenario without a      *)
(* trajectory.                                                             *)
(***************************************************************************)
C10_MainRunsScenariosInOrder ==
    pc.at # "import" =>
        LET k == pc.scenario
            born == IF pc.at = "new" THEN k - 1 ELSE k
            built == IF pc.at \in {"new", "build"} THEN k - 1 ELSE k
            plotted == IF pc.at = "done" THEN k ELSE k - 1
        IN  /\ k \in 1..3
            /\ DOMAIN objs = 1..born
            /\ \A i \in 1..born : objs[i].scenario_title = MainTitles[i]
            /\ \A i \in 1..born : IsBuilt(objs[i]) <=> i <= built
            /\ plt.figures = SubSeq(MainTitles, 1, plotted)
            /\ files = { MainTitles[i] : i \in 1..plotted }
            /\ call.ret # "AttributeError"
            /\ ncalls = born + built + plotted
            /\ pc.at = "done" => k = 3

\* the entry point has finished after plotting the third scenario
C10_Witness ==
    /\ pc.at = "done"
    /\ call.op = "plotter"
    /\ call.self = 3
    /\ ncalls = 9

====
